---- MODULE Spec2Model ----
(***************************************************************************)
(* A model of the signaling relay in src/server.js: the room registry,     *)
(* the per-connection session variables and the four handlers              *)
(* (handleCreateRoom, handleJoinRoom, handleSignal, cleanupConnection)     *)
(* behind the 'message' and 'close' events of each WebSocket.              *)
(*                                                                         *)
(* Node runs every handler to completion on one thread, so each handler    *)
(* is one atomic action.  An outbound ws.send(...) is recorded in `sent`,  *)
(* the sequence of envelopes the last handler handed to the transport, in  *)
(* the order of the calls; whether the transport then delivers them is     *)
(* outside server.js.                                                      *)
(***************************************************************************)
EXTENDS Integers, Sequences, FiniteSets, TLC

\* ---------------------------------------------------------------- bounds
NumConns == 3
MaxRoomOps == 2

\* ------------------------------------------------------ program constants
MaxClients == 4
HostPeerId == 1
FirstClientPeerId == 2
UnassignedPeerId == 0

Conns == 1..NumConns

\* ------------------------------------------------------- values of fields
\* A field the inbound envelope does not carry reads as JS `undefined`; the
\* session variable currentRoom and a room's password can be JS `null`.
Absent == "<undefined>"
Null == "<null>"
\* target_peer_id when the envelope carries none.
AbsentId == -1

RoomNames == {"", "r"}
Passwords == {Absent, "a", "b"}
CreatePasswords == {Absent, "", "a"}
Payloads == {"offer", "answer"}
TargetIds == {AbsentId, 0, 2, 3}

RoomExistsMsg == "Room already exists"
RoomNotFoundMsg == "Room not found"
WrongPasswordMsg == "Wrong password"
RoomFullMsg == "Room is full (max 5 players)"

VARIABLES
    status,       \* per connection: "idle" (not accepted yet), "open",
                  \* "closing" (the server called close() on it), "closed"
                  \* (its 'close' event has been handled)
    currentRoom,  \* per connection: `let currentRoom`
    isHost,       \* per connection: `let isHost`
    peerId,       \* per connection: `let peerId`
    rooms,        \* the registry: room_name -> room, present keys only
    issued,       \* history: per registered room, the peer ids its successful
                  \* joins were given, in order, since its create_room
    roomOps,      \* per connection: its create_room and join_room requests
                  \* that succeeded so far (explored up to MaxRoomOps)
    sent,         \* the envelopes the last handler sent, in order
    pending       \* TRUE from the run of a handler until the event loop is
                  \* back for the next event

vars == <<status, currentRoom, isHost, peerId, rooms, issued, roomOps, sent, pending>>

\* JS truthiness of a string, undefined or null.
Truthy(v) == v \notin {Absent, Null, ""}
\* JS truthiness of a number or undefined.
TruthyId(n) == n # AbsentId /\ n # 0

\* Map.prototype.set / delete on a function whose domain is the present keys.
MapSet(m, k, v) == [x \in DOMAIN m \cup {k} |-> IF x = k THEN v ELSE m[x]]
MapDelete(m, k) == [x \in DOMAIN m \ {k} |-> m[x]]

EmptyMap == [x \in {} |-> 0]

\* Map iteration order is insertion order.  Keys of `clients` are inserted
\* from the increasing next_peer_id, so insertion order is ascending order.
RECURSIVE KeysInOrder(_)
KeysInOrder(S) ==
    IF S = {} THEN <<>>
    ELSE LET m == CHOOSE x \in S : \A y \in S : x <= y
         IN <<m>> \o KeysInOrder(S \ {m})

Envelope(to, msg) == [to |-> to, msg |-> msg]

ErrorEnv(message) == [type |-> "error", message |-> message]

\* ------------------------------------------------------- handleCreateRoom
\* `password || null`
StoredPassword(password) == IF Truthy(password) THEN password ELSE Null

NewRoom(ws, password) ==
    [host |-> ws,
     clients |-> EmptyMap,
     password |-> StoredPassword(password),
     next_peer_id |-> FirstClientPeerId]

RoomCreatedEnv(room_name) ==
    [type |-> "room_created", room_name |-> room_name, peer_id |-> HostPeerId]

\* Mutant of NameTaken: the lookup never finds the name.
NameNeverTaken(rms, room_name) == FALSE

\* `rooms.has(room_name)`
NameTaken(rms, room_name) == room_name \in DOMAIN rms

HandleCreateRoom(ws, room_name, password) ==
    IF NameTaken(rooms, room_name)
    THEN /\ sent' = <<Envelope(ws, ErrorEnv(RoomExistsMsg))>>
         /\ UNCHANGED <<rooms, issued, currentRoom, isHost, peerId, roomOps>>
    ELSE /\ roomOps[ws] < MaxRoomOps
         /\ roomOps' = [roomOps EXCEPT ![ws] = @ + 1]
         /\ rooms' = MapSet(rooms, room_name, NewRoom(ws, password))
         /\ issued' = MapSet(issued, room_name, <<>>)
         /\ currentRoom' = [currentRoom EXCEPT ![ws] = room_name]
         /\ isHost' = [isHost EXCEPT ![ws] = TRUE]
         /\ peerId' = [peerId EXCEPT ![ws] = HostPeerId]
         /\ sent' = <<Envelope(ws, RoomCreatedEnv(room_name))>>

\* --------------------------------------------------------- handleJoinRoom
\* Mutant of PasswordRejected: a request that carries no password is let in
\* (`password && room.password !== password`).
PasswordRejectedIfSupplied(room, password) ==
    Truthy(room.password) /\ Truthy(password) /\ room.password # password

\* `room.password && room.password !== password`
PasswordRejected(room, password) ==
    Truthy(room.password) /\ room.password # password

\* Mutant of RoomIsFull: the capacity check off by one (`>` for `>=`).
RoomIsFullOffByOne(room) == Cardinality(DOMAIN room.clients) > MaxClients

\* `room.clients.size >= 4`
RoomIsFull(room) == Cardinality(DOMAIN room.clients) >= MaxClients

\* Mutant of JoinVerdict: the capacity check moved before the password
\* check.
JoinVerdictFullFirst(rms, room_name, password) ==
    IF ~NameTaken(rms, room_name) THEN RoomNotFoundMsg
    ELSE IF RoomIsFull(rms[room_name]) THEN RoomFullMsg
    ELSE IF PasswordRejected(rms[room_name], password) THEN WrongPasswordMsg
    ELSE "joined"

\* The three checks, in the order of the early returns.
JoinVerdict(rms, room_name, password) ==
    IF ~NameTaken(rms, room_name) THEN RoomNotFoundMsg
    ELSE IF PasswordRejected(rms[room_name], password) THEN WrongPasswordMsg
    ELSE IF RoomIsFull(rms[room_name]) THEN RoomFullMsg
    ELSE "joined"

\* Mutant of AssignedPeerId: the lowest id no client holds, so that the id
\* of a client that left is handed out again.
LowestFreePeerId(room) ==
    CHOOSE id \in FirstClientPeerId..room.next_peer_id :
        /\ id \notin DOMAIN room.clients
        /\ \A lower \in FirstClientPeerId..(id - 1) : lower \in DOMAIN room.clients

\* `const peer_id = room.next_peer_id`
AssignedPeerId(room) == room.next_peer_id

\* Mutant of ExistingPeerIds: the filter on the joiner's own id forgotten.
ExistingPeerIdsUnfiltered(clients, peer_id) == KeysInOrder(DOMAIN clients)

\* `Array.from(room.clients.keys()).filter(id => id !== peer_id)`, read after
\* the joiner has been inserted.
ExistingPeerIds(clients, peer_id) ==
    SelectSeq(KeysInOrder(DOMAIN clients), LAMBDA id : id # peer_id)

RoomJoinedEnv(room_name, peer_id, existing) ==
    [type |-> "room_joined", room_name |-> room_name, peer_id |-> peer_id,
     existing_peers |-> existing]

PeerJoinedEnv(peer_id) == [type |-> "peer_joined", peer_id |-> peer_id]

\* The room after a successful join of ws.
JoinedRoom(room, ws) ==
    [room EXCEPT !.next_peer_id = room.next_peer_id + 1,
                 !.clients = MapSet(room.clients, AssignedPeerId(room), ws)]

\* `room.clients.forEach(...)` with `client_peer_id !== peer_id`
NotifyOthersJoined(clients, peer_id) ==
    LET others == ExistingPeerIds(clients, peer_id)
    IN [i \in 1..Len(others) |-> Envelope(clients[others[i]], PeerJoinedEnv(peer_id))]

HandleJoinRoom(ws, room_name, password) ==
    LET verdict == JoinVerdict(rooms, room_name, password) IN
    IF verdict # "joined"
    THEN /\ sent' = <<Envelope(ws, ErrorEnv(verdict))>>
         /\ UNCHANGED <<rooms, issued, currentRoom, isHost, peerId, roomOps>>
    ELSE LET room == rooms[room_name]
             peer_id == AssignedPeerId(room)
             joined == JoinedRoom(room, ws)
         IN /\ roomOps[ws] < MaxRoomOps
            /\ roomOps' = [roomOps EXCEPT ![ws] = @ + 1]
            /\ rooms' = [rooms EXCEPT ![room_name] = joined]
            /\ issued' = [issued EXCEPT ![room_name] = Append(@, peer_id)]
            /\ currentRoom' = [currentRoom EXCEPT ![ws] = room_name]
            /\ isHost' = [isHost EXCEPT ![ws] = FALSE]
            /\ peerId' = [peerId EXCEPT ![ws] = peer_id]
            /\ sent' = <<Envelope(ws, RoomJoinedEnv(room_name, peer_id,
                                      ExistingPeerIds(joined.clients, peer_id))),
                         Envelope(joined.host, PeerJoinedEnv(peer_id))>>
                        \o NotifyOthersJoined(joined.clients, peer_id)

\* ----------------------------------------------------------- handleSignal
SignalEnv(data, from_peer_id) ==
    [type |-> "signal", data |-> data, from_peer_id |-> from_peer_id]

\* `target_peer_id && room.clients.has(target_peer_id)`
IsDirected(room, target_peer_id) ==
    TruthyId(target_peer_id) /\ target_peer_id \in DOMAIN room.clients

\* The host branch: one directed send, a broadcast, or nothing.
HostSignal(room, target_peer_id, data) ==
    IF IsDirected(room, target_peer_id)
    THEN <<Envelope(room.clients[target_peer_id], SignalEnv(data, HostPeerId))>>
    ELSE IF ~TruthyId(target_peer_id)
    THEN LET keys == KeysInOrder(DOMAIN room.clients)
         IN [i \in 1..Len(keys) |->
                Envelope(room.clients[keys[i]], SignalEnv(data, HostPeerId))]
    ELSE <<>>

\* The client branch: always to the host of the sender's current room.
ClientSignal(room, from_peer_id, data) ==
    <<Envelope(room.host, SignalEnv(data, from_peer_id))>>

HandleSignal(ws, target_peer_id, data) ==
    LET room_name == currentRoom[ws] IN
    /\ sent' = IF ~Truthy(room_name) \/ ~NameTaken(rooms, room_name)
               THEN <<>>
               ELSE IF isHost[ws]
               THEN HostSignal(rooms[room_name], target_peer_id, data)
               ELSE ClientSignal(rooms[room_name], peerId[ws], data)
    /\ UNCHANGED <<rooms, issued, currentRoom, isHost, peerId, roomOps>>

\* ------------------------------------------------------ cleanupConnection
HostDisconnectedEnv == [type |-> "host_disconnected"]

PeerLeftEnv(peer_id) == [type |-> "peer_left", peer_id |-> peer_id]

\* The host branch: every client is told and its close() is called.
NotifyHostGone(room) ==
    LET keys == KeysInOrder(DOMAIN room.clients)
    IN [i \in 1..Len(keys) |-> Envelope(room.clients[keys[i]], HostDisconnectedEnv)]

\* The client branch: the entry under peer_id is deleted, whoever holds it.
RoomWithout(room, peer_id) ==
    [room EXCEPT !.clients = MapDelete(room.clients, peer_id)]

\* The client branch: the host, then the clients left in the map.
NotifyPeerLeft(room, peer_id) ==
    LET keys == KeysInOrder(DOMAIN room.clients)
    IN <<Envelope(room.host, PeerLeftEnv(peer_id))>>
       \o [i \in 1..Len(keys) |-> Envelope(room.clients[keys[i]], PeerLeftEnv(peer_id))]

\* What cleanupConnection does to registry `rms`: the registry after it, the
\* envelopes it sends and the connections it calls close() on.
CleanupConnection(rms, room_name, host, peer_id) ==
    IF ~NameTaken(rms, room_name)
    THEN [rooms |-> rms, sent |-> <<>>, closing |-> {}]
    ELSE LET room == rms[room_name] IN
         IF host
         THEN [rooms |-> MapDelete(rms, room_name),
               sent |-> NotifyHostGone(room),
               closing |-> {room.clients[k] : k \in DOMAIN room.clients}]
         ELSE [rooms |-> [rms EXCEPT ![room_name] = RoomWithout(room, peer_id)],
               sent |-> NotifyPeerLeft(RoomWithout(room, peer_id), peer_id),
               closing |-> {}]

\* WebSocket.close(): an open connection starts closing; otherwise a no-op.
AfterCloseCall(st) == IF st = "open" THEN "closing" ELSE st

\* ------------------------------------------------------------------ events
\* A connection hears events until its 'close' event.  The event loop
\* serves one event at a time: the next one once the handler of the previous
\* one has returned (Dispatched).
CanReceive(c) == status[c] \in {"open", "closing"} /\ ~pending

Init ==
    /\ status = [c \in Conns |-> "idle"]
    /\ currentRoom = [c \in Conns |-> Null]
    /\ isHost = [c \in Conns |-> FALSE]
    /\ peerId = [c \in Conns |-> UnassignedPeerId]
    /\ rooms = EmptyMap
    /\ issued = EmptyMap
    /\ roomOps = [c \in Conns |-> 0]
    /\ pending = FALSE
    /\ sent = <<>>

\* server.on('connection')
Connect(c) ==
    /\ status[c] = "idle"
    /\ ~pending
    /\ pending' = TRUE
    /\ status' = [status EXCEPT ![c] = "open"]
    /\ sent' = <<>>
    /\ UNCHANGED <<currentRoom, isHost, peerId, rooms, issued, roomOps>>

\* case 'create_room'
CreateRoomMessage(c, room_name, password) ==
    /\ CanReceive(c)
    /\ HandleCreateRoom(c, room_name, password)
    /\ pending' = TRUE
    /\ UNCHANGED status

\* case 'join_room'
JoinRoomMessage(c, room_name, password) ==
    /\ CanReceive(c)
    /\ HandleJoinRoom(c, room_name, password)
    /\ pending' = TRUE
    /\ UNCHANGED status

\* case 'signal'
SignalMessage(c, target_peer_id, data) ==
    /\ CanReceive(c)
    /\ HandleSignal(c, target_peer_id, data)
    /\ pending' = TRUE
    /\ UNCHANGED status

\* A message that JSON.parse rejects, or whose type matches no case.
IgnoredMessage(c) ==
    /\ CanReceive(c)
    /\ sent' = <<>>
    /\ pending' = TRUE
    /\ UNCHANGED <<status, currentRoom, isHost, peerId, rooms, issued, roomOps>>

\* ws.on('close')
Close(c) ==
    /\ CanReceive(c)
    /\ pending' = TRUE
    /\ LET done == IF Truthy(currentRoom[c])
                   THEN CleanupConnection(rooms, currentRoom[c], isHost[c], peerId[c])
                   ELSE [rooms |-> rooms, sent |-> <<>>, closing |-> {}]
       IN /\ rooms' = done.rooms
          /\ sent' = done.sent
          /\ issued' = [n \in DOMAIN done.rooms |-> issued[n]]
          /\ status' = [k \in Conns |->
                           IF k = c THEN "closed"
                           ELSE IF k \in done.closing THEN AfterCloseCall(status[k])
                           ELSE status[k]]
    /\ UNCHANGED <<currentRoom, isHost, peerId, roomOps>>

\* The handler has returned and the transport has taken its envelopes.  No
\* handler reads `sent` or `pending`, so this adds no behaviour of the
\* registry.
Dispatched ==
    /\ pending
    /\ pending' = FALSE
    /\ sent' = <<>>
    /\ UNCHANGED <<status, currentRoom, isHost, peerId, rooms, issued, roomOps>>

Next ==
    \/ Dispatched
    \/ \E c \in Conns :
        \/ Connect(c)
        \/ \E room_name \in RoomNames, password \in CreatePasswords :
               CreateRoomMessage(c, room_name, password)
        \/ \E room_name \in RoomNames, password \in Passwords :
               JoinRoomMessage(c, room_name, password)
        \/ \E target_peer_id \in TargetIds, data \in Payloads :
               SignalMessage(c, target_peer_id, data)
        \/ IgnoredMessage(c)
        \/ Close(c)

Spec == Init /\ [][Next]_vars

\* The same server when clients also send create_room and join_room
\* envelopes that carry no room_name: `const { room_name, password } =
\* message` then reads undefined, which is a legal Map key.
MissingRoomNames == {Absent, "r"}

NextMissingName ==
    \/ Dispatched
    \/ \E c \in Conns :
        \/ Connect(c)
        \/ \E room_name \in MissingRoomNames, password \in CreatePasswords :
               CreateRoomMessage(c, room_name, password)
        \/ \E room_name \in MissingRoomNames, password \in Passwords :
               JoinRoomMessage(c, room_name, password)
        \/ \E target_peer_id \in TargetIds, data \in Payloads :
               SignalMessage(c, target_peer_id, data)
        \/ IgnoredMessage(c)
        \/ Close(c)

SpecMissingName == Init /\ [][NextMissingName]_vars

\* ============================================================== properties
ClientIds(room) == DOMAIN room.clients
ClientConns(room) == {room.clients[k] : k \in DOMAIN room.clients}
SeqRange(q) == {q[i] : i \in 1..Len(q)}
\* The supplied password passes the room's password check.
PasswordOk(room, password) == room.password = Null \/ room.password = password
\* The connection's session variables are left as they were.
SessionUnchanged(c) ==
    /\ currentRoom'[c] = currentRoom[c]
    /\ isHost'[c] = isHost[c]
    /\ peerId'[c] = peerId[c]

\* C1: a join_room into an existing room whose password check passes and
\* that has at most 3 clients succeeds: the joiner gets a peer_id that no
\* client of the room held and that is 2 + the number of successful joins
\* into the room so far, and the existing_peers of its room_joined reply
\* are exactly the client ids of the room just before the join (never the
\* host's 1, never the new id).
C1_JoinAssignsNextId ==
    [][\A c \in Conns, n \in RoomNames, p \in Passwords :
          ( /\ n \in DOMAIN rooms
            /\ PasswordOk(rooms[n], p)
            /\ Cardinality(ClientIds(rooms[n])) <= 3
            /\ JoinRoomMessage(c, n, p) )
          => LET before == ClientIds(rooms[n])
                 pid == 2 + Len(issued[n])
                 reply == sent'[1]
             IN /\ n \in DOMAIN rooms'
                /\ pid \notin before
                /\ ClientIds(rooms'[n]) = before \cup {pid}
                /\ rooms'[n].clients[pid] = c
                /\ \A k \in before : rooms'[n].clients[k] = rooms[n].clients[k]
                /\ peerId'[c] = pid
                /\ reply.to = c
                /\ reply.msg.type = "room_joined"
                /\ reply.msg.peer_id = pid
                /\ SeqRange(reply.msg.existing_peers) = before
                /\ Len(reply.msg.existing_peers) = Cardinality(before)
                /\ HostPeerId \notin SeqRange(reply.msg.existing_peers)
                /\ pid \notin SeqRange(reply.msg.existing_peers)
      ]_vars

\* A join answered with existing_peers = <<3, 4>> and peer_id 5: the room
\* had two clients and peer 2 had left before.
C1_Witness ==
    /\ sent # <<>>
    /\ sent[1].msg.type = "room_joined"
    /\ sent[1].msg.peer_id = 5
    /\ sent[1].msg.existing_peers = <<3, 4>>

\* C2: no registered room ever has more than 4 clients, and a join_room
\* with a matching password into a room that has 4 clients sends the
\* RoomFull error to the requester and nothing else, and leaves the room's
\* clients, its next_peer_id and the requester's room, role and peer_id as
\* they were.
C2_RoomCapacity ==
    /\ \A n \in DOMAIN rooms : Cardinality(ClientIds(rooms[n])) <= 4
    /\ [][ /\ \A n \in DOMAIN rooms' : Cardinality(ClientIds(rooms'[n])) <= 4
           /\ \A c \in Conns, n \in RoomNames, p \in Passwords :
                ( /\ n \in DOMAIN rooms
                  /\ PasswordOk(rooms[n], p)
                  /\ Cardinality(ClientIds(rooms[n])) = 4
                  /\ JoinRoomMessage(c, n, p) )
                => /\ sent' = <<Envelope(c, ErrorEnv(RoomFullMsg))>>
                   /\ n \in DOMAIN rooms'
                   /\ rooms'[n].clients = rooms[n].clients
                   /\ rooms'[n].next_peer_id = rooms[n].next_peer_id
                   /\ SessionUnchanged(c)
         ]_vars

\* A fifth join was just refused: the room has 4 clients and the RoomFull
\* error is the one envelope sent.
C2_Witness ==
    /\ Len(sent) = 1
    /\ sent[1].msg = ErrorEnv(RoomFullMsg)
    /\ \E n \in DOMAIN rooms : Cardinality(ClientIds(rooms[n])) = 4

\* C3: while a room stays registered its next_peer_id never decreases,
\* every key of its clients map is >= 2 and below next_peer_id, and no
\* successful join is given a peer_id that an earlier join into the room
\* was given, also when the earlier holder has disconnected.
C3_KeysInRange(rms) ==
    \A n \in DOMAIN rms : \A k \in ClientIds(rms[n]) :
        k >= 2 /\ k < rms[n].next_peer_id

C3_PeerIdsNeverReused ==
    /\ C3_KeysInRange(rooms)
    /\ [][ /\ C3_KeysInRange(rooms')
           /\ \A n \in DOMAIN rooms \cap DOMAIN rooms' :
                rooms'[n].next_peer_id >= rooms[n].next_peer_id
           /\ \A c \in Conns, n \in RoomNames, p \in Passwords :
                ( /\ n \in DOMAIN rooms
                  /\ JoinRoomMessage(c, n, p)
                  /\ sent'[1].msg.type = "room_joined" )
                => /\ sent'[1].msg.peer_id \notin SeqRange(issued[n])
                   /\ sent'[1].msg.peer_id \notin ClientIds(rooms[n])
                   /\ rooms'[n].clients[sent'[1].msg.peer_id] = c
         ]_vars

\* A join was just answered in a room where an id handed out earlier is
\* held by nobody any more: its holder left before this join.
C3_Witness ==
    /\ sent # <<>>
    /\ sent[1].msg.type = "room_joined"
    /\ \E n \in DOMAIN rooms :
          /\ sent[1].msg.room_name = n
          /\ sent[1].msg.peer_id \in ClientIds(rooms[n])
          /\ \E q \in SeqRange(issued[n]) :
                q < sent[1].msg.peer_id /\ q \notin ClientIds(rooms[n])

\* C5: a create_room for a name that is registered sends the RoomExists
\* error to the requester and nothing else, and leaves the whole registry
\* (the existing room's host, clients, password and next_peer_id, and every
\* other room) and the requester's room, role and peer_id as they were.
\* The registry is a map keyed by room name, so a name has one room at most.
C5_CreateExistingRejected ==
    [][\A c \in Conns, n \in RoomNames, p \in CreatePasswords :
          ( /\ n \in DOMAIN rooms
            /\ CreateRoomMessage(c, n, p) )
          => /\ sent' = <<Envelope(c, ErrorEnv(RoomExistsMsg))>>
             /\ rooms' = rooms
             /\ SessionUnchanged(c)
             /\ status' = status
      ]_vars

\* A create_room was just refused while another connection hosts the room
\* and the room has a client.
C5_Witness ==
    /\ Len(sent) = 1
    /\ sent[1].msg = ErrorEnv(RoomExistsMsg)
    /\ \E n \in DOMAIN rooms :
          /\ rooms[n].host # sent[1].to
          /\ ClientIds(rooms[n]) # {}
          /\ rooms[n].password # Null

\* C6: a join_room into a room with a non-empty password, with a password
\* that is absent or differs from it, sends the WrongPassword error to the
\* requester and nothing else, adds no client, leaves next_peer_id and the
\* requester's room, role and peer_id as they were and the connection as
\* open as it was; the same request with the room's password is then
\* accepted (unless the room is full).
C6_WrongPasswordRejected ==
    [][\A c \in Conns, n \in RoomNames, p \in Passwords :
          ( /\ n \in DOMAIN rooms
            /\ rooms[n].password \notin {Null, ""}
            /\ p # rooms[n].password
            /\ JoinRoomMessage(c, n, p) )
          => /\ sent' = <<Envelope(c, ErrorEnv(WrongPasswordMsg))>>
             /\ n \in DOMAIN rooms'
             /\ rooms'[n].clients = rooms[n].clients
             /\ rooms'[n].next_peer_id = rooms[n].next_peer_id
             /\ SessionUnchanged(c)
             /\ status'[c] = status[c]
             /\ JoinVerdict(rooms', n, rooms'[n].password) =
                   IF Cardinality(ClientIds(rooms'[n])) >= 4
                   THEN RoomFullMsg ELSE "joined"
      ]_vars

\* A join was just refused for its password by a room that has a client
\* and room for more.
C6_Witness ==
    /\ Len(sent) = 1
    /\ sent[1].msg = ErrorEnv(WrongPasswordMsg)
    /\ \E n \in DOMAIN rooms :
          /\ rooms[n].password = "a"
          /\ Cardinality(ClientIds(rooms[n])) \in 1..3
          /\ sent[1].to \notin ClientConns(rooms[n])
          /\ sent[1].to # rooms[n].host

\* C4: a create_room for a name that is not registered succeeds: it adds a
\* room with host = the requester, no clients and next_peer_id = 2, makes
\* the requester a host with peer_id 1 and answers room_created with
\* peer_id 1; and the host of every registered room keeps peer_id 1.
C4_HostPeerIdIsOne ==
    [][ /\ \A c \in Conns, n \in RoomNames, p \in CreatePasswords :
             ( /\ n \notin DOMAIN rooms
               /\ CreateRoomMessage(c, n, p) )
             => /\ n \in DOMAIN rooms'
                /\ rooms'[n].host = c
                /\ rooms'[n].clients = EmptyMap
                /\ rooms'[n].next_peer_id = 2
                /\ \A m \in DOMAIN rooms : m \in DOMAIN rooms' /\ rooms'[m] = rooms[m]
                /\ isHost'[c]
                /\ peerId'[c] = 1
                /\ sent' = <<Envelope(c, [type |-> "room_created",
                                          room_name |-> n, peer_id |-> 1])>>
        /\ \A n \in DOMAIN rooms' : peerId'[rooms'[n].host] = 1
      ]_vars

\* The first half of C4 alone: what a successful create_room does.
C4_CreateSucceeds ==
    [][\A c \in Conns, n \in RoomNames, p \in CreatePasswords :
          ( /\ n \notin DOMAIN rooms
            /\ CreateRoomMessage(c, n, p) )
          => /\ n \in DOMAIN rooms'
             /\ rooms'[n].host = c
             /\ rooms'[n].clients = EmptyMap
             /\ rooms'[n].next_peer_id = 2
             /\ \A m \in DOMAIN rooms : m \in DOMAIN rooms' /\ rooms'[m] = rooms[m]
             /\ isHost'[c]
             /\ peerId'[c] = 1
             /\ sent' = <<Envelope(c, [type |-> "room_created",
                                       room_name |-> n, peer_id |-> 1])>>
      ]_vars

\* C7: a signal from the host of a room with a target_peer_id that is a
\* client's id goes to that client and to nobody else; one without a
\* target_peer_id goes exactly once to each client of the room and to nobody
\* else; each envelope has from_peer_id 1 and the data as sent.
C7_HostSignalRouting ==
    [][\A c \in Conns, t \in TargetIds, d \in Payloads, n \in RoomNames :
          ( /\ n \in DOMAIN rooms
            /\ rooms[n].host = c
            /\ SignalMessage(c, t, d) )
          => /\ t \in ClientIds(rooms[n])
                  => sent' = <<Envelope(rooms[n].clients[t], SignalEnv(d, 1))>>
             /\ t = AbsentId
                  => /\ \A i \in 1..Len(sent') : sent'[i].msg = SignalEnv(d, 1)
                     /\ \A k \in Conns :
                          Cardinality({i \in 1..Len(sent') : sent'[i].to = k})
                             = IF k \in ClientConns(rooms[n]) THEN 1 ELSE 0
      ]_vars

\* C8: a signal from a client of a room goes to the host of that room and
\* to nobody else, whatever its target_peer_id, with the data as sent and
\* from_peer_id = an id under which the sender is in the room's clients.
C8_ClientSignalToHost ==
    [][\A c \in Conns, t \in TargetIds, d \in Payloads, n \in RoomNames :
          ( /\ n \in DOMAIN rooms
            /\ c \in ClientConns(rooms[n])
            /\ SignalMessage(c, t, d) )
          => /\ Len(sent') = 1
             /\ sent'[1].to = rooms[n].host
             /\ sent'[1].msg.type = "signal"
             /\ sent'[1].msg.data = d
             /\ sent'[1].msg.from_peer_id \in ClientIds(rooms[n])
             /\ rooms[n].clients[sent'[1].msg.from_peer_id] = c
      ]_vars

\* C9: when the host of a room disconnects, every client of the room is
\* sent host_disconnected and has close() called on it, the room leaves the
\* registry, and a join_room for its name is then answered RoomNotFound.
C9_HostDisconnectClosesRoom ==
    [][\A c \in Conns, n \in RoomNames :
          ( /\ n \in DOMAIN rooms
            /\ rooms[n].host = c
            /\ Close(c) )
          => /\ \A k \in ClientConns(rooms[n]) :
                  /\ \E i \in 1..Len(sent') :
                        sent'[i] = Envelope(k, [type |-> "host_disconnected"])
                  /\ status'[k] \in {"closing", "closed"}
             /\ n \notin DOMAIN rooms'
             /\ \A p \in Passwords : JoinVerdict(rooms', n, p) = RoomNotFoundMsg
      ]_vars

\* C10: when a client of a room disconnects, it leaves the room's clients
\* map, the host and every remaining client are each sent peer_left with the
\* leaver's id and the leaver is sent nothing, and the room stays registered
\* with its host, its other clients and its next_peer_id (the id the next
\* join is given) as they were.
C10_ClientDisconnectLeavesRoom ==
    [][\A c \in Conns, n \in RoomNames :
          ( /\ n \in DOMAIN rooms
            /\ c \in ClientConns(rooms[n])
            /\ Close(c) )
          => /\ n \in DOMAIN rooms'
             /\ c \notin ClientConns(rooms'[n])
             /\ rooms'[n].host = rooms[n].host
             /\ rooms'[n].next_peer_id = rooms[n].next_peer_id
             /\ \A k \in ClientIds(rooms[n]) :
                  rooms[n].clients[k] # c
                    => k \in ClientIds(rooms'[n])
                       /\ rooms'[n].clients[k] = rooms[n].clients[k]
             /\ \E left \in ClientIds(rooms[n]) :
                  /\ rooms[n].clients[left] = c
                  /\ \A i \in 1..Len(sent') :
                        sent'[i].msg = [type |-> "peer_left", peer_id |-> left]
                  /\ \A k \in Conns :
                        Cardinality({i \in 1..Len(sent') : sent'[i].to = k})
                           = IF k # c /\ (k = rooms[n].host
                                          \/ k \in ClientConns(rooms'[n]))
                             THEN 1 ELSE 0
      ]_vars

\* C12: a create_room or join_room from a connection that has a room
\* recorded adds no room to the registry, adds no entry to any clients map
\* and leaves the connection's room_name, role and peer_id as they were.
C12_OneRoomPerConnection ==
    [][\A c \in Conns, n \in RoomNames :
          ( /\ currentRoom[c] # Null
            /\ \/ \E p \in CreatePasswords : CreateRoomMessage(c, n, p)
               \/ \E p \in Passwords : JoinRoomMessage(c, n, p) )
          => /\ DOMAIN rooms' = DOMAIN rooms
             /\ \A m \in DOMAIN rooms : ClientIds(rooms'[m]) = ClientIds(rooms[m])
             /\ SessionUnchanged(c)
      ]_vars

\* The rooms connection c is in and how: <<room_name, role, peer_id>> for
\* the rooms it hosts and for each clients-map key that maps to it.
Memberships(c) ==
    {<<n, TRUE, HostPeerId>> : n \in {m \in DOMAIN rooms : rooms[m].host = c}}
    \cup UNION {{<<n, FALSE, k>> : k \in {j \in ClientIds(rooms[n]) :
                                             rooms[n].clients[j] = c}}
                : n \in DOMAIN rooms}

\* Every connection is in one room at most, under one peer_id, and its
\* session variables describe that membership.
OneMembershipEach ==
    \A c \in Conns :
        /\ Cardinality(Memberships(c)) <= 1
        /\ \A m \in Memberships(c) : m = <<currentRoom[c], isHost[c], peerId[c]>>

\* C13: in every reachable state each connection is a member (host, or a
\* value in the clients map) of at most one room, appears under at most one
\* peer_id in it, and its recorded room_name, role and peer_id describe
\* exactly that membership.
C13_SingleMembership == OneMembershipEach

\* What a call of cleanupConnection that changes nothing and sends nothing
\* returns on registry rms.
CleanupNoOp(rms) == [rooms |-> rms, sent |-> <<>>, closing |-> {}]

\* C11: after the cleanup of a disconnecting connection, a second call of
\* cleanupConnection with the same room_name, role and peer_id changes
\* nothing in the registry or in any room and sends no host_disconnected or
\* peer_left to any connection, for a host and for a client.  Stated for
\* the disconnects that start where every connection is in one room at
\* most.
C11_CleanupIdempotent ==
    [][\A c \in Conns :
          ( /\ OneMembershipEach
            /\ Truthy(currentRoom[c])
            /\ Close(c) )
          => CleanupConnection(rooms', currentRoom[c], isHost[c], peerId[c])
                = CleanupNoOp(rooms')
      ]_vars

\* The host half of C11 alone: the second call of a host's cleanup finds
\* the room gone and does nothing.
C11_HostCleanupIdempotent ==
    [][\A c \in Conns :
          ( /\ Truthy(currentRoom[c])
            /\ isHost[c]
            /\ Close(c) )
          => CleanupConnection(rooms', currentRoom[c], isHost[c], peerId[c])
                = CleanupNoOp(rooms')
      ]_vars

\* The step changes nothing in the registry, in any room or in c's
\* room_name, role and peer_id, sends nothing and closes no connection.
SilentlyIgnored(c) ==
    /\ rooms' = rooms
    /\ SessionUnchanged(c)
    /\ sent' = <<>>
    /\ status' = status

\* C14: an inbound envelope that is unparseable or has an unknown type, and
\* a create_room or join_room that carries no room_name, is silently
\* ignored: nothing changes in the registry, in any room or in the sender's
\* room_name, role and peer_id, no envelope is sent and no connection is
\* closed.
C14_MalformedIgnored ==
    [][\A c \in Conns :
          /\ IgnoredMessage(c) => SilentlyIgnored(c)
          /\ \A p \in CreatePasswords :
                CreateRoomMessage(c, Absent, p) => SilentlyIgnored(c)
          /\ \A p \in Passwords :
                JoinRoomMessage(c, Absent, p) => SilentlyIgnored(c)
      ]_vars

\* The part of C14 about unparseable envelopes and unknown types alone.
C14_UnknownTypeIgnored ==
    [][\A c \in Conns : IgnoredMessage(c) => SilentlyIgnored(c)]_vars

\* C15: a signal from the host of a room whose target_peer_id is present
\* but is not the id of a current client of the room (the id of a client
\* that left, an id never assigned, 0) is dropped: no envelope is sent and
\* no state changes.  Stated for the hosts whose fields name the room, where
\* every connection is in one room at most.
C15_UnknownTargetDropped ==
    [][\A c \in Conns, t \in TargetIds \ {AbsentId}, d \in Payloads,
          n \in RoomNames :
          ( /\ OneMembershipEach
            /\ n \in DOMAIN rooms
            /\ rooms[n].host = c
            /\ currentRoom[c] = n
            /\ isHost[c]
            /\ t \notin ClientIds(rooms[n])
            /\ SignalMessage(c, t, d) )
          => /\ sent' = <<>>
             /\ rooms' = rooms
             /\ status' = status
             /\ SessionUnchanged(c)
      ]_vars

\* C15 without the target 0: a host signal to a non-zero id that no client
\* of the room holds is dropped.
C15_NonZeroUnknownTargetDropped ==
    [][\A c \in Conns, t \in TargetIds \ {AbsentId, 0}, d \in Payloads,
          n \in RoomNames :
          ( /\ n \in DOMAIN rooms
            /\ rooms[n].host = c
            /\ currentRoom[c] = n
            /\ isHost[c]
            /\ t \notin ClientIds(rooms[n])
            /\ SignalMessage(c, t, d) )
          => /\ sent' = <<>>
             /\ rooms' = rooms
             /\ status' = status
             /\ SessionUnchanged(c)
      ]_vars

\* What C16 says of a successful join of c into room n: room_joined to the
\* joiner first, peer_joined with the new id to the host second, then one
\* peer_joined with the new id per client that was in the room; no
\* peer_joined goes to the joiner; the new id is above every id the host
\* was told of before.
JoinEnvelopesInOrder(c, n) ==
    LET pid == sent'[1].msg.peer_id
        before == ClientIds(rooms[n])
    IN /\ Len(sent') = 2 + Cardinality(before)
       /\ sent'[1].to = c
       /\ sent'[2] = Envelope(rooms[n].host, [type |-> "peer_joined", peer_id |-> pid])
       /\ \A i \in 3..Len(sent') :
             sent'[i].msg = [type |-> "peer_joined", peer_id |-> pid]
       /\ \A k \in before :
             Cardinality({i \in 3..Len(sent') : sent'[i].to = rooms[n].clients[k]})
                = Cardinality({j \in before : rooms[n].clients[j] = rooms[n].clients[k]})
       /\ \A i \in 3..Len(sent') : sent'[i].to \in ClientConns(rooms[n])
       /\ \A i \in 1..Len(sent') :
             sent'[i].msg.type = "peer_joined" => sent'[i].to # c
       /\ \A earlier \in SeqRange(issued[n]) : earlier < pid

\* C16: on every successful join the envelopes go out in the order
\* room_joined to the joiner, peer_joined to the host, peer_joined to each
\* client that was in the room before; the joiner gets no peer_joined for
\* its own id; the host is told of the joins in increasing peer_id order.
C16_JoinNotificationOrder ==
    [][\A c \in Conns, n \in RoomNames, p \in Passwords :
          ( /\ n \in DOMAIN rooms
            /\ JoinRoomMessage(c, n, p)
            /\ sent'[1].msg.type = "room_joined" )
          => JoinEnvelopesInOrder(c, n)
      ]_vars

\* C16 for the joins of a connection that is not in the room yet.
C16_NewcomerJoinOrder ==
    [][\A c \in Conns, n \in RoomNames, p \in Passwords :
          ( /\ n \in DOMAIN rooms
            /\ rooms[n].host # c
            /\ c \notin ClientConns(rooms[n])
            /\ JoinRoomMessage(c, n, p)
            /\ sent'[1].msg.type = "room_joined" )
          => JoinEnvelopesInOrder(c, n)
      ]_vars

C18_NoRoomOutlivesHost ==
    \A n \in DOMAIN rooms : status[rooms[n].host] # "closed"

\* C19: handling the close of a connection in the client role removes from
\* a clients map no entry whose value is another connection, and sends
\* peer_left for no peer_id under which another connection is in the room.
C19_CleanupRemovesOwnEntryOnly ==
    [][\A c \in Conns :
          ( /\ ~isHost[c]
            /\ Close(c) )
          => /\ \A n \in DOMAIN rooms :
                  /\ n \in DOMAIN rooms'
                  /\ \A k \in ClientIds(rooms[n]) :
                        rooms[n].clients[k] # c
                          => /\ k \in ClientIds(rooms'[n])
                             /\ rooms'[n].clients[k] = rooms[n].clients[k]
             /\ \A i \in 1..Len(sent') :
                  sent'[i].msg.type = "peer_left"
                    => \A n \in DOMAIN rooms :
                          ( /\ n = currentRoom[c]
                            /\ sent'[i].msg.peer_id \in ClientIds(rooms[n]) )
                          => rooms[n].clients[sent'[i].msg.peer_id] = c
      ]_vars

\* The connections in a room: its host and the values of its clients map.
Members(room) == {room.host} \cup ClientConns(room)

\* C20: every signal envelope goes to a connection that is in a room the
\* sender is in; a signal from a client whose room was closed by its host
\* is dropped also when a room of the same name has been created since.
\* Stated where every connection is in one room at most.
C20_SignalsStayInRoom ==
    [][\A c \in Conns, t \in TargetIds, d \in Payloads :
          ( /\ OneMembershipEach
            /\ SignalMessage(c, t, d) )
          => \A i \in 1..Len(sent') :
                \E n \in DOMAIN rooms :
                    /\ c \in Members(rooms[n])
                    /\ sent'[i].to \in Members(rooms[n])
      ]_vars

====
